---- MODULE Spec2Model ----
(***************************************************************************)
(* Model of the FLVER importer (src/importer.py): the coordinate            *)
(* converter, the armature builder (bone hierarchy resolver + bone chain    *)
(* simplifier) and the mesh binder's vertex-group / weight pass.            *)
(*                                                                         *)
(* Numbers.  Lengths are integers in units of 0.05, so the placeholder      *)
(* bone length 0.05 of transform_bone is 1 and a translation of 1.0 is 20.  *)
(* Euler angles are counted in quarter turns (k stands for k*pi/2), so the  *)
(* rotation matrices are integer matrices; the model is exact arithmetic    *)
(* (the code's float round-off of cos(pi/2) is not modelled).  Skin weights *)
(* are integers in tenths (3 stands for 0.3).                               *)
(*                                                                         *)
(* Indices are 0-based as in the code; the i-th element of a Python list    *)
(* is position i+1 of the TLA+ sequence.                                    *)
(***************************************************************************)
EXTENDS Integers, Sequences, FiniteSets, TLC

VARIABLES
    \* convert_coordinates
    cpc, cin, cz_up, cout, cout2,
    \* create_armature
    apc, bones, z_up, edit_bones, root_bones, tstack, cstack, visits, resolved,
    armature_bones,
    \* create_mesh
    mpc, nbones, palette, nverts, bone_indices, bone_weights, exhausted,
    vertex_groups, weight_layer, gi, vi

cvars == <<cpc, cin, cz_up, cout, cout2>>
avars == <<apc, bones, z_up, edit_bones, root_bones, tstack, cstack, visits, resolved,
           armature_bones>>
mvars == <<mpc, nbones, palette, nverts, bone_indices, bone_weights, exhausted,
           vertex_groups, weight_layer, gi, vi>>
vars == <<cvars, avars, mvars>>

(***************************************************************************)
(* Bounds of the model.                                                    *)
(***************************************************************************)
MaxCoord == 2
MaxBones == 3
RecursionLimit == 5
MaxSkeleton == 2
MaxPalette == 2
MaxVerts == 2
Influences == 2

(***************************************************************************)
(* Python helpers.                                                         *)
(***************************************************************************)
\* 0 <= i < n, the bounds test the code writes before every bone lookup
\* (lines 186, 193, 214, 218)
InRangeNoUpper(i, n) == i >= 0
InRange(i, n) == i >= 0 /\ i < n

\* i is an index of a list of n elements
Valid(i, n) == i \in 0..(n - 1)

\* s[i] of a Python list: a negative i counts from the end; "IndexError"
\* outside -len..len-1
PyIndexOk(n, i) == i >= -n /\ i < n
PyPosition(n, i) == IF i >= 0 THEN i ELSE n + i
PyIndex(s, i) == s[PyPosition(Len(s), i) + 1]

(***************************************************************************)
(* convert_coordinates                                                     *)
(***************************************************************************)
convert_coordinates_wrong_axes(x, y, z, zup) == IF zup THEN <<z, y, x>> ELSE <<x, y, z>>
convert_coordinates(x, y, z, zup) == IF zup THEN <<x, z, y>> ELSE <<x, y, z>>

(***************************************************************************)
(* mathutils: 3-vectors, 3x3 rotation blocks and rigid 4x4 matrices (kept   *)
(* as a rotation block rot and a translation column tr).                    *)
(***************************************************************************)
Vadd(a, b) == <<a[1] + b[1], a[2] + b[2], a[3] + b[3]>>
Vsub(a, b) == <<a[1] - b[1], a[2] - b[2], a[3] - b[3]>>
Vscale(a, k) == <<a[1] * k, a[2] * k, a[3] * k>>
Zero3 == <<0, 0, 0>>

Dot(r, v) == r[1] * v[1] + r[2] * v[2] + r[3] * v[3]
MatVec(m, v) == <<Dot(m[1], v), Dot(m[2], v), Dot(m[3], v)>>
Col(m, j) == <<m[1][j], m[2][j], m[3][j]>>
MatMul(a, b) == [i \in 1..3 |-> [j \in 1..3 |-> Dot(a[i], Col(b, j))]]
Identity3 == <<<<1, 0, 0>>, <<0, 1, 0>>, <<0, 0, 1>>>>

\* cos and sin of k quarter turns
Cos4(k) == CASE k % 4 = 0 -> 1 [] k % 4 = 1 -> 0 [] k % 4 = 2 -> -1 [] OTHER -> 0
Sin4(k) == CASE k % 4 = 0 -> 0 [] k % 4 = 1 -> 1 [] k % 4 = 2 -> 0 [] OTHER -> -1

\* Matrix.Rotation(angle, 4, axis)
RotX(k) == <<<<1, 0, 0>>, <<0, Cos4(k), -Sin4(k)>>, <<0, Sin4(k), Cos4(k)>>>>
RotY(k) == <<<<Cos4(k), 0, Sin4(k)>>, <<0, 1, 0>>, <<-Sin4(k), 0, Cos4(k)>>>>
RotZ(k) == <<<<Cos4(k), -Sin4(k), 0>>, <<Sin4(k), Cos4(k), 0>>, <<0, 0, 1>>>>

\* Matrix(): the 4x4 identity
MatrixIdentity == [rot |-> Identity3, tr |-> Zero3]
\* parent_matrix @ Vector (a 3-vector is extended by w = 1)
Apply(m, v) == Vadd(MatVec(m.rot, v), m.tr)
\* parent_matrix @ Matrix.Translation(t) @ rotation_matrix
Compose(m, t, r) == [rot |-> MatMul(m.rot, r), tr |-> Apply(m, t)]

\* Vector.magnitude, exact where the length is an integer (every vector the
\* model's inputs produce lies on a coordinate axis, see AxisAligned)
Isqrt(n) == CHOOSE r \in 0..n : r * r <= n /\ (r + 1) * (r + 1) > n
Magnitude(v) == Isqrt(Dot(v, v))
\* Vector.normalize(): a zero vector is left as it is
Normalize(v) ==
    IF Magnitude(v) = 0 THEN v
    ELSE <<v[1] \div Magnitude(v), v[2] \div Magnitude(v), v[3] \div Magnitude(v)>>
AxisAligned(v) == Cardinality({i \in 1..3 : v[i] # 0}) <= 1

\* get_rotation_matrix: Rotation_Y(r[1]) @ Rotation_Z(r[2]) @ Rotation_X(r[0])
get_rotation_matrix(bone) ==
    MatMul(MatMul(RotY(bone.rotation[2]), RotZ(bone.rotation[3])), RotX(bone.rotation[1]))

\* the placeholder bone length 0.05 of transform_bone
BoneLength == 1

(***************************************************************************)
(* Input skeletons (flver_data.bones).  A bone record is                   *)
(*   [parent_index, child_index, next_sibling_index, translation, rotation].*)
(* The family: every forest of at most MaxBones bones in its first-child / *)
(* next-sibling encoding (roots chained as siblings), and each of those    *)
(* with one index field overwritten by any value of -2..n (an absent,      *)
(* out-of-range, misdirected or cycle-closing link).  parent_index never   *)
(* forms a cycle.  Translations and placeholder directions stay on the      *)
(* Y axis of the asset (rotations are 0 or a half turn about Z), so every  *)
(* length and every normalised direction is an integer vector.             *)
(***************************************************************************)
Translations == {<<0, 0, 0>>, <<0, 20, 0>>, <<0, -20, 0>>}
Rotations == {<<0, 0, 0>>, <<0, 0, 2>>}

MinOf(S) == CHOOSE x \in S : \A y \in S : x <= y

RECURSIVE Follow(_, _, _)
\* the index reached from i after at most k steps along p (a sequence of
\* indices), stopping at an index outside the sequence
Follow(p, i, k) ==
    IF k = 0 \/ ~Valid(i, Len(p)) THEN i ELSE Follow(p, p[i + 1], k - 1)
ParentAcyclic(p) == \A i \in 0..(Len(p) - 1) : ~Valid(Follow(p, i, Len(p)), Len(p))

FirstChild(p, i) ==
    LET cs == {j \in 0..(Len(p) - 1) : p[j + 1] = i}
    IN  IF cs = {} THEN -1 ELSE MinOf(cs)
NextSibling(p, i) ==
    LET ss == {j \in (i + 1)..(Len(p) - 1) : p[j + 1] = p[i + 1]}
    IN  IF ss = {} THEN -1 ELSE MinOf(ss)

Forests(n) == {p \in [1..n -> -1..(n - 1)] : ParentAcyclic(p)}
Encoding(p) ==
    [i \in 1..Len(p) |->
        [parent_index |-> p[i], child_index |-> FirstChild(p, i - 1),
         next_sibling_index |-> NextSibling(p, i - 1)]]
Faulted(top, i, f, v) ==
    [top EXCEPT ![i] =
        CASE f = "parent" -> [@ EXCEPT !.parent_index = v]
          [] f = "child" -> [@ EXCEPT !.child_index = v]
          [] OTHER -> [@ EXCEPT !.next_sibling_index = v]]
ParentsOf(top) == [i \in 1..Len(top) |-> top[i].parent_index]
WellFormed(n) == {Encoding(p) : p \in Forests(n)}
SingleFault(n) ==
    {t \in {Faulted(Encoding(p), i, f, v) :
                p \in Forests(n), i \in 1..n,
                f \in {"parent", "child", "sibling"}, v \in -2..n} :
        ParentAcyclic(ParentsOf(t))} \ WellFormed(n)
Geometries(n) == [1..n -> [translation : Translations, rotation : Rotations]]
PlainGeometries(n) ==
    [1..n -> [translation : {<<0, 0, 0>>, <<0, 20, 0>>}, rotation : {Zero3}]]
Dressed(top, g) ==
    [i \in 1..Len(top) |->
        [parent_index |-> top[i].parent_index, child_index |-> top[i].child_index,
         next_sibling_index |-> top[i].next_sibling_index,
         translation |-> g[i].translation, rotation |-> g[i].rotation]]
\* well-formed encodings under every geometry, single-fault encodings
\* under the geometries without rotation and without downward translation
SkeletonsOf(n) ==
    {Dressed(top, g) : top \in WellFormed(n), g \in Geometries(n)}
    \cup {Dressed(top, g) : top \in SingleFault(n), g \in PlainGeometries(n)}

(***************************************************************************)
(* create_armature.  apc is the position in the function:                  *)
(*   "start" -> "transform" (transform_bone calls pending on tstack)       *)
(*           -> "connect" (connect_bone calls pending on cstack)           *)
(*           -> "toggle" (line 248 is next) -> "done"                      *)
(* "none" is the early return for an empty bone list, "RecursionError" the *)
(* interpreter's abort of a recursion deeper than RecursionLimit.          *)
(* The recursions are run on explicit stacks whose top is the next call,   *)
(* which gives the call order of the code.  visits counts the invocations  *)
(* of transform_bone per bone; resolved keeps the edit bones as the        *)
(* resolver left them.  armature_bones are the bones of the returned       *)
(* armature, by bone index; edit bones exist in edit mode only.            *)
(***************************************************************************)
NoBone == -1

\* armature.data.edit_bones.new(name): head = tail = origin, no parent
NewEditBone == [head |-> Zero3, tail |-> Zero3, parent |-> NoBone, use_connect |-> FALSE]

\* edit bone .children: the bones whose parent is b, in edit_bones order
RECURSIVE ChildrenFrom(_, _, _)
ChildrenFrom(eb, b, i) ==
    IF i >= Len(eb) THEN <<>>
    ELSE (IF eb[i + 1].parent = b THEN <<i>> ELSE <<>>) \o ChildrenFrom(eb, b, i + 1)
Children(eb, b) == ChildrenFrom(eb, b, 0)

\* root_bones: the bones with parent_index < 0, in order
RECURSIVE RootsFrom(_, _)
RootsFrom(bs, i) ==
    IF i >= Len(bs) THEN <<>>
    ELSE (IF bs[i + 1].parent_index < 0 THEN <<i>> ELSE <<>>) \o RootsFrom(bs, i + 1)

ArmatureInit ==
    \* the other operations do not run
    /\ cpc = "idle" /\ cin = <<>> /\ cz_up = FALSE /\ cout = <<>> /\ cout2 = <<>>
    /\ mpc = "idle" /\ nbones = 0 /\ palette = <<>> /\ nverts = 0
    /\ bone_indices = <<>> /\ bone_weights = <<>> /\ exhausted = FALSE
    /\ vertex_groups = <<>> /\ weight_layer = <<>> /\ gi = 0 /\ vi = 0
    /\ apc = "start"
    /\ \E n \in 0..MaxBones : bones \in SkeletonsOf(n)
    /\ z_up \in BOOLEAN
    /\ edit_bones = <<>>
    /\ root_bones = <<>>
    /\ tstack = <<>>
    /\ cstack = <<>>
    /\ visits = <<>>
    /\ resolved = <<>>
    /\ armature_bones = <<>>

\* lines 166-167: no bones, no armature
ReturnNone ==
    /\ apc = "start"
    /\ Len(bones) = 0
    /\ apc' = "none"
    /\ UNCHANGED <<bones, z_up, edit_bones, root_bones, tstack, cstack, visits, resolved, armature_bones>>
    /\ UNCHANGED <<cvars, mvars>>

\* lines 177-183 and the first call of line 223
CreateEditBones ==
    /\ apc = "start"
    /\ Len(bones) > 0
    /\ edit_bones' = [i \in 1..Len(bones) |-> NewEditBone]
    /\ root_bones' = RootsFrom(bones, 0)
    /\ visits' = [i \in 1..Len(bones) |-> 0]
    /\ tstack' = <<[bone_index |-> 0, parent_matrix |-> MatrixIdentity, depth |-> 1]>>
    /\ apc' = "transform"
    /\ UNCHANGED <<bones, z_up, cstack, resolved, armature_bones>>
    /\ UNCHANGED <<cvars, mvars>>

\* the calls one invocation of transform_bone makes, child first
Calls(flver_bone, parent_matrix, child_matrix, depth, n) ==
    (IF InRange(flver_bone.child_index, n)
       THEN <<[bone_index |-> flver_bone.child_index, parent_matrix |-> child_matrix,
               depth |-> depth + 1]>>
       ELSE <<>>)
    \o
    (IF InRange(flver_bone.next_sibling_index, n)
       THEN <<[bone_index |-> flver_bone.next_sibling_index,
               parent_matrix |-> parent_matrix, depth |-> depth + 1]>>
       ELSE <<>>)

\* lines 189-211: the edit bone as one invocation of transform_bone leaves it
Transformed(edit_bone, flver_bone, parent_matrix, n, zup) ==
    LET head == Apply(parent_matrix, flver_bone.translation)
        tail == Vadd(head, MatVec(get_rotation_matrix(flver_bone), <<0, BoneLength, 0>>))
    IN  [edit_bone EXCEPT
            !.parent = IF InRange(flver_bone.parent_index, n)
                         THEN PyPosition(n, flver_bone.parent_index) ELSE @,
            !.head = convert_coordinates(head[1], head[2], head[3], zup),
            !.tail = convert_coordinates(tail[1], tail[2], tail[3], zup)]

\* lines 210-211
child_matrix_of(flver_bone, parent_matrix) ==
    Compose(parent_matrix, flver_bone.translation, get_rotation_matrix(flver_bone))

\* the list lookups of lines 189, 190 and 194 succeed
LookupsOk(bone_index, n) ==
    /\ PyIndexOk(n, bone_index)
    /\ InRange(PyIndex(bones, bone_index).parent_index, n)
          => PyIndexOk(n, PyIndex(bones, bone_index).parent_index)

\* one invocation of transform_bone (lines 185-219)
TransformBone ==
    /\ apc = "transform"
    /\ tstack # <<>>
    /\ LET call == Head(tstack)
           n == Len(bones)
       IN  IF ~InRange(call.bone_index, n)
             THEN /\ tstack' = Tail(tstack)
                  /\ UNCHANGED <<apc, edit_bones, visits, armature_bones>>
             ELSE IF ~LookupsOk(call.bone_index, n)
             THEN /\ apc' = "IndexError"
                  /\ UNCHANGED <<tstack, edit_bones, visits, armature_bones>>
             ELSE LET flver_bone == PyIndex(bones, call.bone_index)
                      position == PyPosition(n, call.bone_index) + 1
                      calls == Calls(flver_bone, call.parent_matrix,
                                     child_matrix_of(flver_bone, call.parent_matrix),
                                     call.depth, n)
                  IN  /\ edit_bones' =
                            [edit_bones EXCEPT ![position] =
                                Transformed(@, flver_bone, call.parent_matrix, n, z_up)]
                      /\ visits' = [visits EXCEPT ![position] = @ + 1]
                      /\ IF calls # <<>> /\ call.depth + 1 > RecursionLimit
                           THEN /\ apc' = "RecursionError"
                                /\ tstack' = Tail(tstack)
                           ELSE /\ apc' = apc
                                /\ tstack' = calls \o Tail(tstack)
    /\ UNCHANGED <<bones, z_up, root_bones, cstack, resolved, armature_bones>>
    /\ UNCHANGED <<cvars, mvars>>

\* line 223 has returned; the loop of lines 245-246 is entered
TransformDone ==
    /\ apc = "transform"
    /\ tstack = <<>>
    /\ resolved' = edit_bones
    /\ cstack' = root_bones
    /\ apc' = "connect"
    /\ UNCHANGED <<bones, z_up, edit_bones, root_bones, tstack, visits, armature_bones>>
    /\ UNCHANGED <<cvars, mvars>>

\* lines 228-235: a bone without children
ConnectLeaf(eb, b) ==
    LET bone == eb[b + 1]
    IN  IF bone.parent = NoBone THEN eb
        ELSE LET parent == eb[bone.parent + 1]
                 direction == Normalize(Vsub(parent.tail, parent.head))
                 length == Magnitude(Vsub(bone.tail, bone.head))
             IN  [eb EXCEPT ![b + 1].tail = Vadd(bone.head, Vscale(direction, length))]

\* lines 240-242: a bone with one child
ConnectChainTailTypo(eb, b, child) ==
    [eb EXCEPT ![b + 1].tail = eb[child + 1].tail, ![child + 1].use_connect = TRUE]
ConnectChain(eb, b, child) ==
    [eb EXCEPT ![b + 1].tail = eb[child + 1].head, ![child + 1].use_connect = TRUE]

\* the edit bones after the body of one connect_bone(b), recursion aside
ConnectRule(eb, b) ==
    LET children == Children(eb, b)
    IN  CASE Len(children) = 0 -> ConnectLeaf(eb, b)
          [] Len(children) > 1 -> eb
          [] OTHER -> ConnectChain(eb, b, children[1])

\* one invocation of connect_bone (lines 226-243)
ConnectBone ==
    /\ apc = "connect"
    /\ cstack # <<>>
    /\ edit_bones' = ConnectRule(edit_bones, Head(cstack))
    /\ cstack' = Children(edit_bones, Head(cstack)) \o Tail(cstack)
    /\ UNCHANGED <<apc, bones, z_up, root_bones, tstack, visits, resolved, armature_bones>>
    /\ UNCHANGED <<cvars, mvars>>

\* lines 245-246: every root has been processed
ConnectDone ==
    /\ apc = "connect"
    /\ cstack = <<>>
    /\ apc' = "toggle"
    /\ UNCHANGED <<bones, z_up, edit_bones, root_bones, tstack, cstack, visits, resolved,
                   armature_bones>>
    /\ UNCHANGED <<cvars, mvars>>

\* an edit bone whose tail is on its head
ZeroLength(bone) == bone.tail = bone.head

\* leaving edit mode, from edit bone k (1-based) on: a bone of zero length
\* is dropped and its children are handed to its parent
RECURSIVE RemoveZeroFrom(_, _, _)
RemoveZeroFrom(eb, k, gone) ==
    IF k > Len(eb) THEN [bones |-> eb, gone |-> gone]
    ELSE IF ZeroLength(eb[k])
      THEN RemoveZeroFrom(
              [j \in 1..Len(eb) |->
                  IF eb[j].parent = k - 1 THEN [eb[j] EXCEPT !.parent = eb[k].parent]
                  ELSE eb[j]],
              k + 1, gone \cup {k - 1})
      ELSE RemoveZeroFrom(eb, k + 1, gone)

\* the bones the armature keeps, by bone index
ArmatureFromEdit(eb) ==
    LET r == RemoveZeroFrom(eb, 1, {})
    IN  [i \in (0..(Len(eb) - 1)) \ r.gone |-> r.bones[i + 1]]

\* lines 248-249: edit mode is left and the armature returned
EditmodeToggle ==
    /\ apc = "toggle"
    /\ armature_bones' = ArmatureFromEdit(edit_bones)
    /\ edit_bones' = <<>>
    /\ apc' = "done"
    /\ UNCHANGED <<bones, z_up, root_bones, tstack, cstack, visits, resolved>>
    /\ UNCHANGED <<cvars, mvars>>

ArmatureNext ==
    \/ ReturnNone
    \/ CreateEditBones
    \/ TransformBone
    \/ TransformDone
    \/ ConnectBone
    \/ ConnectDone
    \/ EditmodeToggle

(***************************************************************************)
(* convert_coordinates as a program of its own: an input triple, the       *)
(* conversion, and the conversion applied to its own result.               *)
(***************************************************************************)
Coords == (-MaxCoord)..MaxCoord

ConvertInit ==
    \* the other operations do not run
    /\ apc = "idle" /\ bones = <<>> /\ z_up = FALSE /\ edit_bones = <<>>
    /\ root_bones = <<>> /\ tstack = <<>> /\ cstack = <<>> /\ visits = <<>>
    /\ resolved = <<>> /\ armature_bones = <<>>
    /\ mpc = "idle" /\ nbones = 0 /\ palette = <<>> /\ nverts = 0
    /\ bone_indices = <<>> /\ bone_weights = <<>> /\ exhausted = FALSE
    /\ vertex_groups = <<>> /\ weight_layer = <<>> /\ gi = 0 /\ vi = 0
    /\ cpc = "start"
    /\ cin \in Coords \X Coords \X Coords
    /\ cz_up \in BOOLEAN
    /\ cout = <<>>
    /\ cout2 = <<>>

Convert ==
    /\ cpc = "start"
    /\ cout' = convert_coordinates(cin[1], cin[2], cin[3], cz_up)
    /\ cpc' = "once"
    /\ UNCHANGED <<cin, cz_up, cout2>>
    /\ UNCHANGED <<avars, mvars>>

ConvertAgain ==
    /\ cpc = "once"
    /\ cout2' = convert_coordinates(cout[1], cout[2], cout[3], cz_up)
    /\ cpc' = "twice"
    /\ UNCHANGED <<cin, cz_up, cout>>
    /\ UNCHANGED <<avars, mvars>>

ConvertNext == Convert \/ ConvertAgain

(***************************************************************************)
(* create_mesh: the vertex groups (lines 94-99) and the weight pass (lines *)
(* 113-137).  Of the skeleton only the number of bones nbones matters; bone *)
(* names are taken to be distinct, so a bone is named by its index.         *)
(*   palette       flver_mesh.bone_indices                                 *)
(*   bone_indices  inflated_mesh.vertices.bone_indices, a row per vertex    *)
(*   bone_weights  inflated_mesh.vertices.bone_weights, a row per vertex    *)
(*   nverts        len(bm.verts), the number of positions                   *)
(* The rows of the two vertex arrays are chosen when the loop reads them;  *)
(* exhausted says that the arrays have ended before the vertex read (they   *)
(* are shorter than the position list).                                    *)
(*   vertex_groups obj.vertex_groups: [bone, copy]; copy = k > 0 is the     *)
(*                 group the host named "<bone name>.00k" because k groups *)
(*                 of that bone's name existed already                     *)
(*   weight_layer  per vertex the deform entries <<group index, weight>>    *)
(***************************************************************************)
Weights == {0, 3, 7}
Slots == 0..MaxPalette
Rows(S) == [1..Influences -> S]

RECURSIVE SeqsUpTo(_, _)
\* the sequences over S of length at most n
SeqsUpTo(S, n) ==
    IF n = 0 THEN {<<>>}
    ELSE SeqsUpTo(S, n - 1) \cup {Append(q, x) : q \in [1..(n - 1) -> S], x \in S}

MeshInit ==
    \* the other operations do not run
    /\ cpc = "idle" /\ cin = <<>> /\ cz_up = FALSE /\ cout = <<>> /\ cout2 = <<>>
    /\ apc = "idle" /\ bones = <<>> /\ z_up = FALSE /\ edit_bones = <<>>
    /\ root_bones = <<>> /\ tstack = <<>> /\ cstack = <<>> /\ visits = <<>>
    /\ resolved = <<>> /\ armature_bones = <<>>
    /\ mpc = "start"
    /\ nbones \in 0..MaxSkeleton
    /\ palette \in SeqsUpTo((-1)..nbones, MaxPalette)
    /\ nverts \in 0..MaxVerts
    /\ bone_indices = <<>>
    /\ bone_weights = <<>>
    /\ exhausted = FALSE
    /\ vertex_groups = <<>>
    /\ weight_layer = <<>>
    /\ gi = 0
    /\ vi = 0

\* import_flver lines 36-38: the armature exists when the asset has bones
ArmatureExists == nbones > 0

\* lines 89, 114: no armature, nothing is bound
BindNothing ==
    /\ mpc = "start"
    /\ ~ArmatureExists
    /\ mpc' = "done"
    /\ UNCHANGED <<nbones, palette, nverts, bone_indices, bone_weights, exhausted,
                   vertex_groups, weight_layer, gi, vi>>
    /\ UNCHANGED <<cvars, avars>>

\* lines 89-92
StartBind ==
    /\ mpc = "start"
    /\ ArmatureExists
    /\ mpc' = "groups"
    /\ UNCHANGED <<nbones, palette, nverts, bone_indices, bone_weights, exhausted,
                   vertex_groups, weight_layer, gi, vi>>
    /\ UNCHANGED <<cvars, avars>>

\* obj.vertex_groups.new(name = the name of bone b)
NewGroup(groups, b) ==
    [bone |-> b, copy |-> Cardinality({g \in 1..Len(groups) : groups[g].bone = b})]

\* lines 95-97: flver_data.bones[bone_index] exists
CreateVertexGroup ==
    /\ mpc = "groups"
    /\ gi < Len(palette)
    /\ PyIndexOk(nbones, palette[gi + 1])
    /\ vertex_groups' =
          Append(vertex_groups, NewGroup(vertex_groups, PyPosition(nbones, palette[gi + 1])))
    /\ gi' = gi + 1
    /\ UNCHANGED <<mpc, nbones, palette, nverts, bone_indices, bone_weights, exhausted,
                   weight_layer, vi>>
    /\ UNCHANGED <<cvars, avars>>

\* lines 98-99: IndexError, no group for this palette entry
SkipVertexGroup ==
    /\ mpc = "groups"
    /\ gi < Len(palette)
    /\ ~PyIndexOk(nbones, palette[gi + 1])
    /\ gi' = gi + 1
    /\ UNCHANGED <<mpc, nbones, palette, nverts, bone_indices, bone_weights, exhausted,
                   vertex_groups, weight_layer, vi>>
    /\ UNCHANGED <<cvars, avars>>

\* line 115: the deform layer, empty for every vertex
GroupsDone ==
    /\ mpc = "groups"
    /\ gi = Len(palette)
    /\ weight_layer' = [v \in 1..nverts |-> {}]
    /\ mpc' = "weights"
    /\ UNCHANGED <<nbones, palette, nverts, bone_indices, bone_weights, exhausted,
                   vertex_groups, gi, vi>>
    /\ UNCHANGED <<cvars, avars>>

\* line 134
WeightAny(weight) == TRUE
WeightIsSet(weight) == weight # 0

\* vert[weight_layer][index] = weight
DeformSet(dv, index, weight) == {e \in dv : e[1] # index} \cup {<<index, weight>>}

RECURSIVE ApplyRow(_, _, _, _)
\* lines 133-135 from pair k on
ApplyRow(dv, indices, weights, k) ==
    IF k > Len(indices) \/ k > Len(weights) THEN dv
    ELSE ApplyRow(IF WeightIsSet(weights[k]) THEN DeformSet(dv, indices[k], weights[k]) ELSE dv,
                  indices, weights, k + 1)

\* lines 119-135 for one vertex whose rows exist
ApplyVertexWeights ==
    /\ mpc = "weights"
    /\ vi < nverts
    /\ ~exhausted
    /\ \E indices \in Rows(Slots), weights \in Rows(Weights) :
          /\ bone_indices' = Append(bone_indices, indices)
          /\ bone_weights' = Append(bone_weights, weights)
          /\ weight_layer' = [weight_layer EXCEPT ![vi + 1] = ApplyRow(@, indices, weights, 1)]
    /\ vi' = vi + 1
    /\ UNCHANGED <<mpc, nbones, palette, nverts, exhausted, vertex_groups, gi>>
    /\ UNCHANGED <<cvars, avars>>

\* lines 121-122, 136-137: the vertex arrays have no row vi, IndexError
SkipVertex ==
    /\ mpc = "weights"
    /\ vi < nverts
    /\ exhausted' = TRUE
    /\ vi' = vi + 1
    /\ UNCHANGED <<mpc, nbones, palette, nverts, bone_indices, bone_weights,
                   vertex_groups, weight_layer, gi>>
    /\ UNCHANGED <<cvars, avars>>

\* lines 139-141
WeightsDone ==
    /\ mpc = "weights"
    /\ vi = nverts
    /\ mpc' = "done"
    /\ UNCHANGED <<nbones, palette, nverts, bone_indices, bone_weights, exhausted,
                   vertex_groups, weight_layer, gi, vi>>
    /\ UNCHANGED <<cvars, avars>>

MeshNext ==
    \/ BindNothing
    \/ StartBind
    \/ CreateVertexGroup
    \/ SkipVertexGroup
    \/ GroupsDone
    \/ ApplyVertexWeights
    \/ SkipVertex
    \/ WeightsDone

(***************************************************************************)
(* Specifications.                                                         *)
(***************************************************************************)
SpecConvert == ConvertInit /\ [][ConvertNext]_vars
SpecArmature == ArmatureInit /\ [][ArmatureNext]_vars
SpecMesh == MeshInit /\ [][MeshNext]_vars

(***************************************************************************)
(* The coordinate converter.                                               *)
(***************************************************************************)
\* C8: convert_coordinates returns (x, y, z) for the native convention and
\* (x, z, y) for the swapped one, whatever the triple, and the swapped
\* conversion applied twice gives the triple back.
C8_ConvertContract ==
    /\ cpc \in {"once", "twice"} =>
          cout = IF cz_up THEN <<cin[1], cin[3], cin[2]>> ELSE <<cin[1], cin[2], cin[3]>>
    /\ cpc = "twice" => cout2 = cin

\* a triple with y # z converted twice under the swapped convention
C8_Witness == cpc = "twice" /\ cz_up /\ cin[2] # cin[3] /\ cout # cin

(***************************************************************************)
(* The armature builder.                                                   *)
(***************************************************************************)
NumBones == Len(bones)
BoneIndices == 0..(NumBones - 1)

\* every index field is -1 or a position of the sequence
ValidIndices ==
    \A i \in 1..NumBones :
        /\ bones[i].parent_index \in (-1)..(NumBones - 1)
        /\ bones[i].child_index \in (-1)..(NumBones - 1)
        /\ bones[i].next_sibling_index \in (-1)..(NumBones - 1)

\* the bones the child and sibling links of bone i lead to
LinkSucc(i) ==
    {j \in {bones[i + 1].child_index, bones[i + 1].next_sibling_index} : Valid(j, NumBones)}
RECURSIVE ReachIn(_, _)
ReachIn(S, k) == IF k = 0 THEN S ELSE ReachIn(S \cup UNION {LinkSucc(j) : j \in S}, k - 1)
\* the bones reached from index 0 along child and sibling links
Reachable0 == IF NumBones = 0 THEN {} ELSE ReachIn({0}, NumBones)
LinkAcyclic == \A i \in BoneIndices : i \notin ReachIn(LinkSucc(i), NumBones)
NoCycles == LinkAcyclic /\ ParentAcyclic([i \in 1..NumBones |-> bones[i].parent_index])

\* the links are the first-child / next-sibling encoding of the forest that
\* parent_index describes
IsEncoding ==
    [i \in 1..NumBones |->
        [parent_index |-> bones[i].parent_index, child_index |-> bones[i].child_index,
         next_sibling_index |-> bones[i].next_sibling_index]]
    = Encoding([i \in 1..NumBones |-> bones[i].parent_index])

WellFormedSkeleton == ValidIndices /\ IsEncoding

Visited(i) == visits[i + 1] > 0
\* every bone was resolved exactly once
ResolvedOnce == \A i \in BoneIndices : visits[i + 1] = 1
SkeletonChildren(b) == {j \in BoneIndices : bones[j + 1].parent_index = b}

\* C3: for N >= 1 bone records with valid indices and no cycles, N edit bones
\* exist, transform_bone ran exactly once for each of them, and every bone
\* with parent_index >= 0 has its parent link.
\* (Stated for well-formed encodings, which have valid indices and no cycles;
\* the claim covers more, so a violation here is a violation of the claim.)
C3_EveryBoneOnce ==
    (apc = "toggle" /\ WellFormedSkeleton /\ NoCycles) =>
        /\ Len(edit_bones) = NumBones
        /\ \A i \in BoneIndices :
              /\ visits[i + 1] = 1
              /\ bones[i + 1].parent_index >= 0 =>
                    edit_bones[i + 1].parent = bones[i + 1].parent_index

\* C4: after the simplifier every bone with exactly one child has its tail
\* on the child's head and the child is connected.
\* (Stated for well-formed encodings only; the claim covers every skeleton.)
C4_SingleChildConnected ==
    (apc = "toggle" /\ WellFormedSkeleton) =>
        \A b \in BoneIndices : \A c \in SkeletonChildren(b) :
            SkeletonChildren(b) = {c} =>
                /\ edit_bones[c + 1].head = edit_bones[b + 1].tail
                /\ edit_bones[c + 1].use_connect

Cross(a, b) ==
    <<a[2] * b[3] - a[3] * b[2], a[3] * b[1] - a[1] * b[3], a[1] * b[2] - a[2] * b[1]>>
BoneVector(eb, i) == Vsub(eb[i + 1].tail, eb[i + 1].head)

\* C5: after the simplifier a bone with no children and a parent points
\* along its parent and is as long as the resolver made it, also when the
\* parent's tail sits on the parent's head.
\* (Stated for well-formed encodings all of whose bones were resolved once.)
C5_LeafKeepsLength ==
    (apc = "toggle" /\ WellFormedSkeleton /\ ResolvedOnce) =>
        \A b \in BoneIndices :
            (SkeletonChildren(b) = {} /\ Valid(bones[b + 1].parent_index, NumBones)) =>
                /\ Cross(BoneVector(edit_bones, b),
                         BoneVector(edit_bones, bones[b + 1].parent_index)) = Zero3
                /\ Magnitude(BoneVector(edit_bones, b)) = Magnitude(BoneVector(resolved, b))

RECURSIVE AncestorSum(_)
\* the local translations of bone i and of its parent_index ancestors, added
AncestorSum(i) ==
    IF Valid(bones[i + 1].parent_index, NumBones)
      THEN Vadd(bones[i + 1].translation, AncestorSum(bones[i + 1].parent_index))
      ELSE bones[i + 1].translation
Converted(v) == IF z_up THEN <<v[1], v[3], v[2]>> ELSE v
AllRotationsZero == \A i \in 1..NumBones : bones[i].rotation = Zero3

\* the chain root(0) -> mid(1) -> tip(2) of the specification
Chain3 ==
    <<[parent_index |-> -1, child_index |-> 1, next_sibling_index |-> -1,
       translation |-> <<0, 0, 0>>, rotation |-> Zero3],
      [parent_index |-> 0, child_index |-> 2, next_sibling_index |-> -1,
       translation |-> <<0, 20, 0>>, rotation |-> Zero3],
      [parent_index |-> 1, child_index |-> -1, next_sibling_index |-> -1,
       translation |-> <<0, 20, 0>>, rotation |-> Zero3]>>

\* C7: with all rotations zero the head of every visited bone is the sum of
\* the translations of the bone and of its parent_index ancestors; in the
\* three-bone chain the heads are (0,0,0), (0,1,0), (0,2,0) and the simplifier
\* puts root.tail on mid.head and mid.tail on tip.head.
\* (The general part is stated for well-formed encodings only.)
C7_HeadIsAncestorSum ==
    /\ (apc \in {"connect", "toggle"} /\ AllRotationsZero /\ WellFormedSkeleton) =>
          \A i \in BoneIndices :
              Visited(i) => edit_bones[i + 1].head = Converted(AncestorSum(i))
    /\ (apc = "toggle" /\ bones = Chain3) =>
          /\ edit_bones[1].head = Converted(<<0, 0, 0>>)
          /\ edit_bones[2].head = Converted(<<0, 20, 0>>)
          /\ edit_bones[3].head = Converted(<<0, 40, 0>>)
          /\ edit_bones[1].tail = edit_bones[2].head
          /\ edit_bones[2].tail = edit_bones[3].head

RECURSIVE BottomUp(_, _)
RECURSIVE BottomUpEach(_, _)
\* the per-bone rule applied to the children of b first and to b last
BottomUp(eb, b) == ConnectRule(BottomUpEach(eb, Children(eb, b)), b)
BottomUpEach(eb, bs) ==
    IF bs = <<>> THEN eb ELSE BottomUpEach(BottomUp(eb, Head(bs)), Tail(bs))
\* the simplifier run bottom-up on what the resolver left
BottomUpResult == BottomUpEach(resolved, root_bones)

\* C9 as claimed: root-down and bottom-up give every bone the same tail and
\* the same connected flag.
\* (Stated for well-formed encodings all of whose bones were resolved once;
\* the claim covers every acyclic skeleton.)
C9_OrderIrrelevant ==
    (apc = "toggle" /\ WellFormedSkeleton /\ ResolvedOnce) =>
        \A i \in 1..NumBones :
            /\ edit_bones[i].tail = BottomUpResult[i].tail
            /\ edit_bones[i].use_connect = BottomUpResult[i].use_connect

\* bone i has no children and is the only child of its parent
OnlyChildLeaf(i) ==
    /\ Children(edit_bones, i) = <<>>
    /\ edit_bones[i + 1].parent # NoBone
    /\ Len(Children(edit_bones, edit_bones[i + 1].parent)) = 1

\* C9 as amended: the two orders agree on every head and connected flag and
\* on the tail of every bone that is not a childless only child; such a bone
\* takes its direction from the parent tail the simplifier has just moved.
C9_OrderMattersForOnlyChildLeaf ==
    apc = "toggle" =>
        \A i \in 1..NumBones :
            /\ edit_bones[i].head = BottomUpResult[i].head
            /\ edit_bones[i].use_connect = BottomUpResult[i].use_connect
            /\ edit_bones[i].tail # BottomUpResult[i].tail => OnlyChildLeaf(i - 1)

\* a childless only child whose tail differs between the two orders, beside
\* a connected chain on which they agree
C9_Witness ==
    /\ apc = "toggle"
    /\ WellFormedSkeleton
    /\ ResolvedOnce
    /\ \E i \in 1..NumBones :
          /\ OnlyChildLeaf(i - 1)
          /\ edit_bones[i].tail # BottomUpResult[i].tail
          /\ edit_bones[i].use_connect
          /\ BottomUpResult[i].use_connect

RECURSIVE SumFrom(_, _)
SumFrom(q, k) == IF k > Len(q) THEN 0 ELSE q[k] + SumFrom(q, k + 1)
RECURSIVE Pow2(_)
Pow2(k) == IF k = 0 THEN 1 ELSE 2 * Pow2(k - 1)

\* no lookup fails, no call is made for an absent or out-of-range link, and
\* a finished traversal has visited exactly the bones its in-range links reach
C10_AbsentLinksEnd ==
    /\ apc # "IndexError"
    /\ \A k \in 1..Len(tstack) : Valid(tstack[k].bone_index, NumBones)
    /\ apc \in {"connect", "toggle", "done"} =>
          \A i \in BoneIndices : Visited(i) <=> i \in Reachable0

\* without a cycle in the links the recursion is never deeper than the
\* number of bones, makes fewer than 2^N invocations and is not aborted
C10_Terminates ==
    LinkAcyclic =>
        /\ apc # "RecursionError"
        /\ \A k \in 1..Len(tstack) : tstack[k].depth <= NumBones
        /\ SumFrom(visits, 1) < Pow2(NumBones)

\* C10: a child_index or next_sibling_index that is negative or >= N ends
\* its branch without error and without touching a bone, the other branches
\* are traversed, and without a cycle in the links the traversal ends.
C10_OutOfRangeAbsentAndTerminates == C10_AbsentLinksEnd /\ C10_Terminates

\* a returned armature for which a visited bone has an out-of-range child_index
\* (not the sentinel -1) and an in-range sibling that was visited
C10_Witness ==
    /\ apc = "done"
    /\ \E i \in BoneIndices :
          /\ Visited(i)
          /\ bones[i + 1].child_index \notin (-1)..(NumBones - 1)
          /\ Valid(bones[i + 1].next_sibling_index, NumBones)
          /\ Visited(bones[i + 1].next_sibling_index)

(***************************************************************************)
(* The mesh binder.                                                        *)
(***************************************************************************)
\* the palette entry at position s (0-based) names a bone of the skeleton
PaletteValid(s) == Valid(s, Len(palette)) /\ Valid(palette[s + 1], nbones)
\* the palette entry at position k got a vertex group
GroupMade(k) == palette[k + 1] >= -nbones /\ palette[k + 1] < nbones
\* the index in vertex_groups of the group made for palette position s
GroupOfSlot(s) == Cardinality({k \in 0..(s - 1) : GroupMade(k)})
\* the vertices whose rows were read
Bound == 1..Len(bone_indices)
\* the weight the last non-zero pair of vertex v with slot s carries
LastWeight(v, s) ==
    LET ks == {k \in 1..Influences : bone_indices[v][k] = s /\ bone_weights[v][k] # 0}
    IN  bone_weights[v][CHOOSE k \in ks : \A j \in ks : j <= k]

\* C1: every non-zero pair whose slot is inside the palette and selects a
\* valid bone is recorded under the vertex group made for that palette
\* entry, also when an earlier palette entry is out of range or repeated.
C1_WeightUnderPaletteBone ==
    mpc = "done" =>
        \A v \in Bound : \A k \in 1..Influences :
            (bone_weights[v][k] # 0 /\ PaletteValid(bone_indices[v][k])) =>
                <<GroupOfSlot(bone_indices[v][k]), LastWeight(v, bone_indices[v][k])>>
                    \in weight_layer[v]

RECURSIVE ExpectedFrom(_, _, _)
\* the deform entries of vertex v when exactly the valid non-zero pairs are
\* recorded, each under the group of its palette entry
ExpectedFrom(dv, v, k) ==
    IF k > Influences THEN dv
    ELSE ExpectedFrom(
            IF bone_weights[v][k] # 0 /\ PaletteValid(bone_indices[v][k])
              THEN DeformSet(dv, GroupOfSlot(bone_indices[v][k]), bone_weights[v][k])
              ELSE dv,
            v, k + 1)
\* the deform entries that name an existing vertex group
InGroups(dv) == {e \in dv : e[1] < Len(vertex_groups)}

\* C2: a pair whose slot is outside the palette, or whose palette entry is
\* outside the skeleton, is the only thing skipped: the groups of a vertex
\* carry exactly the weights of its other non-zero pairs.
\* (Stated for palettes without negative entries; the claim makes no such
\* restriction, so a violation here is a violation of the claim.)
C2_OnlyBadPairSkipped ==
    (mpc = "done" /\ \A k \in 1..Len(palette) : palette[k] >= 0) =>
        \A v \in Bound : InGroups(weight_layer[v]) = ExpectedFrom({}, v, 1)

\* C6 as claimed: a pair of weight 0.0 leaves no entry for its slot, whatever
\* the other pairs of the vertex are.
C6_ZeroPairNoEntry ==
    mpc = "done" =>
        \A v \in Bound : \A k \in 1..Influences :
            bone_weights[v][k] = 0 =>
                ~\E e \in weight_layer[v] : e[1] = bone_indices[v][k]

\* C6 as amended: the entries of a vertex are exactly the slots of its
\* non-zero pairs; a slot whose pairs all weigh 0.0 has no entry, and a
\* vertex without rows has none at all.
C6_EntriesAreNonZeroSlots ==
    mpc \in {"weights", "done"} =>
        \A v \in 1..vi :
            {e[1] : e \in weight_layer[v]} =
                IF v \in Bound
                  THEN {bone_indices[v][k] : k \in {j \in 1..Influences : bone_weights[v][j] # 0}}
                  ELSE {}

\* a vertex with a 0.0 pair whose slot got no entry beside a recorded pair
C6_Witness ==
    /\ mpc = "done"
    /\ \E v \in Bound : \E k, j \in 1..Influences :
          /\ bone_weights[v][k] = 0
          /\ bone_weights[v][j] # 0
          /\ bone_indices[v][k] # bone_indices[v][j]
          /\ ~\E e \in weight_layer[v] : e[1] = bone_indices[v][k]
          /\ \E e \in weight_layer[v] : e[1] = bone_indices[v][j]

====
